---- MODULE Spec2Model ----
(***************************************************************************)
(* DevFlow prompt-quality engine (src/src/core/prompt-optimizer.ts):       *)
(* the COSTAR analyzers, the score aggregator, the triage advisor, the     *)
(* prompt synthesizer and the change recorder of class PromptOptimizer.    *)
(***************************************************************************)
EXTENDS Integers, Sequences, FiniteSets, TLC

(***************************************************************************)
(* JavaScript numbers.  calculateCOSTARScore multiplies the component      *)
(* scores by the literals 0.2, 0.15, 0.35 and 0.3 and adds the products;   *)
(* every one of these operations is an IEEE-754 binary64 operation that    *)
(* rounds to nearest, ties to even.  All values that occur are 0 or lie in *)
(* [0.125, 128) and are multiples of 2^-55.  A value v is represented by   *)
(* the record [hund |-> h, err |-> e] with                                 *)
(*        v * 100 * 2^55  =  h * 2^55 + e                                  *)
(* so h is the intended decimal value in hundredths and e the (tiny)       *)
(* binary representation error, an integer that fits a machine word.       *)
(***************************************************************************)
RECURSIVE PowMod(_, _, _)
PowMod(b, k, m) == IF k = 0 THEN 1 % m ELSE (b * PowMod(b, k - 1, m)) % m

\* 2^55 modulo 200 g, for every grid spacing g that occurs
TwoTo55Mod == [g \in {1, 2, 4, 8, 16, 32, 64, 128, 256, 512} |-> PowMod(2, 55, 200 * g)]

\* v >= t/100, for a threshold t given in hundredths
DGe(d, t) == d.hund > t \/ (d.hund = t /\ d.err >= 0)

\* spacing of the binary64 grid around v, in units of 2^-55
Ulp(d) ==
    IF DGe(d, 6400) THEN 512
    ELSE IF DGe(d, 3200) THEN 256
    ELSE IF DGe(d, 1600) THEN 128
    ELSE IF DGe(d, 800) THEN 64
    ELSE IF DGe(d, 400) THEN 32
    ELSE IF DGe(d, 200) THEN 16
    ELSE IF DGe(d, 100) THEN 8
    ELSE IF DGe(d, 50) THEN 4
    ELSE IF DGe(d, 25) THEN 2
    ELSE 1

\* round the exact real d to the nearest binary64 value, ties to even
RoundToDouble(d) ==
    LET \* r2 is 100 * (v / 2^-55) modulo 200 g, for the grid spacing g
        Nearest(g, r2) ==
            LET r == r2 % (100 * g)
                odd == r2 >= 100 * g
                up == (2 * r > 100 * g) \/ (2 * r = 100 * g /\ odd)
            IN  [hund |-> d.hund,
                 err |-> IF up THEN d.err + (100 * g - r) ELSE d.err - r]
        OnGrid(g) ==
            Nearest(g, (((d.hund * TwoTo55Mod[g]) % (200 * g)) + (d.err % (200 * g)))
                       % (200 * g))
    IN  IF d.hund = 0 /\ d.err = 0 THEN d ELSE OnGrid(Ulp(d))

\* a decimal literal of the source with h hundredths (0.35 is DoubleLit(35))
DoubleLit(h) == RoundToDouble([hund |-> h, err |-> 0])

\* score * literal, score an integer-valued number
DMul(score, d) == RoundToDouble([hund |-> score * d.hund, err |-> score * d.err])

DAdd(a, b) == RoundToDouble([hund |-> a.hund + b.hund, err |-> a.err + b.err])

\* Math.round: the integer nearest to v, halves go up
MathRound(d) == IF d.err >= 0 THEN (d.hund + 50) \div 100 ELSE (d.hund + 49) \div 100

(***************************************************************************)
(* Prompts.  A prompt is a string; the model writes it as a sequence of    *)
(* atoms (pieces of text).  Consecutive atoms are joined by one space,     *)
(* except around the line feed atom NL.  Every atom holds at most one word *)
(* (a maximal run of word characters).  Word gives the word of an atom in  *)
(* lower case (the regular expressions are case-insensitive), Pre and Post *)
(* tell whether non-word characters precede or follow the word, Ws whether *)
(* the atom is white space, and Subs which of the unanchored patterns of   *)
(* the source its text matches:                                            *)
(*   react, typescript, node, python               extractOrInferTechnical *)
(*   professional, casual, technical               extractToneGuidance     *)
(*   beginner, senior|expert                       extractAudienceDefinition *)
(*   code, documentation|docs, test, example       extractDeliverables     *)
(*   context:  (background|context|currently|given|situation):             *)
(*   objective: (objective|goal|purpose):                                  *)
(*   e.g.      \be\.g\.\b                                                  *)
(***************************************************************************)
NL == "<LF>"
Pad == "      "

\* the atoms the prompts of the model are made of
Atoms ==
    {"fix", "create", "Build", "the", "a", "an", "login", "bug", "page", "with", "must",
     "node", "api", "react", "code", "JSON", "step", "success", "professional", "casual",
     "technical", "keep", "senior", "beginner", "developer", "user", "needs", "output",
     "provide", "as", "example", "tests", "app", "existing", "you", "are", "context:",
     "goal:", "## TONE", Pad, NL,
     "You", "working", "on", "Node", "project.", "Create", "page.", "Provide", "result",
     "React", "component", "tests.", "Target", "audience:", "developers.", "Format",
     "response", "examples.", "advanced", "friendly"}

\* the word of an atom, in lower case
Word(a) ==
    CASE a = "Build" -> "build"
      [] a = "JSON" -> "json"
      [] a = "context:" -> "context"
      [] a = "goal:" -> "goal"
      [] a = "## TONE" -> "tone"
      [] a = "You" -> "you"
      [] a = "Node" -> "node"
      [] a = "project." -> "project"
      [] a = "Create" -> "create"
      [] a = "page." -> "page"
      [] a = "Provide" -> "provide"
      [] a = "React" -> "react"
      [] a = "tests." -> "tests"
      [] a = "Target" -> "target"
      [] a = "audience:" -> "audience"
      [] a = "developers." -> "developers"
      [] a = "Format" -> "format"
      [] a = "examples." -> "examples"
      [] a = Pad \/ a = NL -> ""
      [] OTHER -> a

\* non-word characters stand before (after) the word of the atom
Pre(a) == a = "## TONE"
Post(a) ==
    a \in {"context:", "goal:", "project.", "page.", "tests.", "audience:", "developers.",
           "examples."}

\* the atom is white space
Ws(a) == a = Pad \/ a = NL

\* the unanchored patterns the text of the atom matches
Subs(a) ==
    CASE a \in {"node", "react", "code", "professional", "casual", "technical", "beginner",
                "example", "context:"} -> {a}
      [] a = "senior" -> {"senior|expert"}
      [] a = "Node" -> {"node"}
      [] a = "React" -> {"react"}
      [] a \in {"tests", "tests."} -> {"test"}
      [] a = "examples." -> {"example"}
      [] a = "goal:" -> {"objective:"}
      [] OTHER -> {}

\* Math.max written for Math.min
Min_AsMax(a, b) == IF a < b THEN b ELSE a

\* score % 100 written for Math.min(100, score)
Min_AsModulo(a, b) == b % a

Min(a, b) == IF a < b THEN a ELSE b

\* the absent value of an optional field or argument (undefined)
Undefined == <<>>
Some(v) == <<v>>
Truthy(opt) == opt # Undefined

AtomLen(a) == IF a = NL THEN 1 ELSE Len(a)

\* a joining space stands before atom i
SepBefore(p, i) == i > 1 /\ p[i] # NL /\ p[i - 1] # NL

RECURSIVE LengthUpTo(_, _)
LengthUpTo(p, n) ==
    IF n = 0 THEN 0
    ELSE LengthUpTo(p, n - 1) + AtomLen(p[n]) + (IF SepBefore(p, n) THEN 1 ELSE 0)

\* prompt.length
length(p) == LengthUpTo(p, Len(p))

\* prompt.trim()
trim(p) ==
    LET solid == {i \in 1..Len(p) : ~Ws(p[i])}
    IN  IF solid = {} THEN <<>>
        ELSE SubSeq(p, CHOOSE i \in solid : \A j \in solid : i <= j,
                       CHOOSE i \in solid : \A j \in solid : i >= j)

(***************************************************************************)
(* Lexical cue matcher: /\b(alt1|alt2|...)\b/i.test(prompt).  An           *)
(* alternative is one word or a phrase of words separated by one space.    *)
(***************************************************************************)
HasPhrase(p, ph) ==
    \E i \in 1..(Len(p) - Len(ph) + 1) :
        /\ \A j \in 1..Len(ph) : Word(p[i + j - 1]) = ph[j]
        /\ \A j \in 1..(Len(ph) - 1) :
              ~Post(p[i + j - 1]) /\ ~Pre(p[i + j])

Detect(p, words, phrases) ==
    \/ \E i \in 1..Len(p) : Word(p[i]) \in words
    \/ \E ph \in phrases : HasPhrase(p, ph)

\* an unanchored pattern: /key/i.test(prompt)
Contains(p, key) == \E i \in 1..Len(p) : key \in Subs(p[i])

\* /^(w1|w2|...)\b/i.test(p)
StartsWithWord(p, words) ==
    Len(p) > 0 /\ ~Pre(p[1]) /\ Word(p[1]) \in words

\* /^(phrase1|phrase2|...)$/i.test(p)
IsExactly(p, phrases) ==
    \E ph \in phrases :
        /\ Len(p) = Len(ph)
        /\ \A j \in 1..Len(ph) :
              /\ Word(p[j]) = ph[j]
              /\ ~Pre(p[j]) /\ ~Post(p[j])

ActionVerbs_WithoutFix ==
    {"create", "build", "develop", "implement", "add", "update", "refactor", "design",
     "generate"}

ActionVerbs ==
    {"create", "build", "develop", "implement", "add", "update", "fix", "refactor",
     "design", "generate"}

hasContext(prompt) ==
    Detect(prompt, {"background", "context", "currently", "existing", "problem", "issue",
                    "because", "given", "situation"}, {})

hasSuccessCriteria(prompt) ==
    Detect(prompt, {"success", "complete", "done", "measure", "metric", "goal"},
           {<<"should", "be", "able", "to">>})

hasTechnicalDetails(prompt) ==
    \/ Detect(prompt, {"react", "vue", "angular", "node", "python", "java", "typescript", "api",
                       "database", "sql", "nosql", "aws", "docker", "kubernetes"}, {})
    \/ Detect(prompt, {"integrate", "performance", "scale", "security"}, {})

hasUserNeeds(prompt) ==
    Detect(prompt, {"user", "customer", "client", "team", "developer", "admin", "visitor",
                    "audience"}, {})

hasExpectedOutput(prompt) ==
    Detect(prompt, {"output", "result", "deliverable", "should", "include", "contain",
                    "provide", "return"}, {<<"look", "like">>})

hasUnrealisticScope(prompt) ==
    LET tooBroad == IsExactly(trim(prompt),
                        {<<"build", "a", "app">>, <<"build", "an", "app">>,
                         <<"create", "a", "system">>, <<"make", "a", "platform">>,
                         <<"develop", "everything">>})
    IN  tooBroad \/ (length(prompt) < 30 /\ Detect(prompt, {"app", "system", "platform"}, {}))

\* countMissingCriticalElements with the user-needs test left out
countMissingCriticalElements_NoUserNeeds(prompt) ==
    (IF ~hasContext(prompt) THEN 1 ELSE 0)
    + (IF ~hasTechnicalDetails(prompt) THEN 1 ELSE 0)
    + (IF ~hasSuccessCriteria(prompt) THEN 1 ELSE 0)
    + (IF ~hasExpectedOutput(prompt) THEN 1 ELSE 0)

countMissingCriticalElements(prompt) ==
    (IF ~hasContext(prompt) THEN 1 ELSE 0)
    + (IF ~hasTechnicalDetails(prompt) THEN 1 ELSE 0)
    + (IF ~hasSuccessCriteria(prompt) THEN 1 ELSE 0)
    + (IF ~hasUserNeeds(prompt) THEN 1 ELSE 0)
    + (IF ~hasExpectedOutput(prompt) THEN 1 ELSE 0)

When(cond, str) == IF cond THEN <<str>> ELSE <<>>

(***************************************************************************)
(* The six component analyzers.                                            *)
(***************************************************************************)
analyzeContext(prompt) ==
    LET hasBackground ==
            \/ Detect(prompt, {"background", "context", "currently", "existing", "situation",
                               "considering"}, {<<"given", "that">>})
            \/ Detect(prompt, {}, {<<"you", "are">>, <<"you're", "working">>,
                                   <<"the", "project">>, <<"this", "is">>})
        hasConstraints ==
            \/ Detect(prompt, {"constraint", "limitation", "requirement", "must", "cannot",
                               "restricted"}, {<<"should", "not">>})
            \/ Detect(prompt, {"using", "with", "without", "requires", "needs"}, {})
        situationClarity ==
            (IF hasBackground THEN 50 ELSE 0) + (IF hasConstraints THEN 30 ELSE 0)
            + (IF hasTechnicalDetails(prompt) THEN 20 ELSE 0)
        score ==
            (IF hasBackground THEN 50 ELSE 0) + (IF hasConstraints THEN 30 ELSE 0)
            + (IF hasTechnicalDetails(prompt) THEN 20 ELSE 0)
    IN  [score |-> Min(100, score),
         hasBackground |-> hasBackground,
         hasConstraints |-> hasConstraints,
         situationClarity |-> situationClarity,
         issues |-> When(~hasBackground, "No background or situational context provided")
                    \o When(~hasConstraints, "Constraints or requirements not specified"),
         suggestions |->
             When(~hasBackground,
                  "[C] Add background: Explain the current situation or problem context")
             \o When(~hasConstraints,
                  "[C] Specify constraints: Technologies, limitations, or requirements that apply")]

analyzeObjective(prompt) ==
    LET goalClarity ==
            \/ StartsWithWord(trim(prompt), ActionVerbs)
            \/ Detect(prompt, {"objective", "goal", "purpose", "aim"},
                      {<<"want", "to">>, <<"need", "to">>})
        measurable ==
            \/ hasSuccessCriteria(prompt)
            \/ Detect(prompt, {"measure", "metric", "success"},
                      {<<"complete", "when">>, <<"done", "when">>})
        achievable == ~hasUnrealisticScope(prompt)
        clarityScore ==
            (IF goalClarity THEN 40 ELSE 0) + (IF measurable THEN 30 ELSE 0)
            + (IF achievable THEN 30 ELSE 0)
        score ==
            (IF goalClarity THEN 40 ELSE 0) + (IF measurable THEN 30 ELSE 0)
            + (IF achievable THEN 30 ELSE 0)
    IN  [score |-> Min(100, score),
         goalClarity |-> goalClarity,
         measurable |-> measurable,
         achievable |-> achievable,
         clarityScore |-> clarityScore,
         issues |-> When(~goalClarity, "Goal or objective not clearly stated")
                    \o When(~measurable, "Objective not measurable")
                    \o When(~achievable, "Objective may be too broad or unrealistic"),
         suggestions |->
             When(~goalClarity,
                  "[O] State objective clearly: Use action verbs (create, build, implement)")
             \o When(~measurable,
                  "[O] Make objective measurable: Define what success looks like")
             \o When(~achievable,
                  "[O] Refine scope: Break down into achievable, focused goal")]

\* presentationClear granted on an example phrase alone
analyzeStyle_ExampleAlone(prompt) ==
    LET formatSpecified ==
            \/ Detect(prompt, {"format", "markdown", "json", "code", "list", "table", "bullet",
                               "numbered", "xml", "yaml"}, {})
            \/ Detect(prompt, {"organize"},
                      {<<"provide", "as">>, <<"structure", "as">>, <<"present", "as">>})
        structureDefined ==
            \/ Detect(prompt, {"section", "heading", "organize", "structure", "step", "phase",
                               "part"}, {})
            \/ Detect(prompt, {"include", "contain", "with", "having"}, {})
        presentationClear ==
            \/ formatSpecified /\ structureDefined
            \/ Detect(prompt, {"example", "sample", "like"}, {<<"such", "as">>})
        score ==
            (IF formatSpecified THEN 40 ELSE 0) + (IF structureDefined THEN 35 ELSE 0)
            + (IF presentationClear THEN 25 ELSE 0)
    IN  [score |-> Min(100, score),
         formatSpecified |-> formatSpecified,
         structureDefined |-> structureDefined,
         presentationClear |-> presentationClear,
         issues |-> When(~formatSpecified, "Output format not specified")
                    \o When(~structureDefined, "Structure or organization not defined"),
         suggestions |->
             When(~formatSpecified,
                  "[S] Specify format: Define how output should be presented (markdown, code, list)")
             \o When(~structureDefined,
                  "[S] Define structure: Specify how information should be organized")
             \o When(~presentationClear,
                  "[S] Clarify presentation: Add examples or specify organization preferences")]

analyzeStyle(prompt) ==
    LET formatSpecified ==
            \/ Detect(prompt, {"format", "markdown", "json", "code", "list", "table", "bullet",
                               "numbered", "xml", "yaml"}, {})
            \/ Detect(prompt, {"organize"},
                      {<<"provide", "as">>, <<"structure", "as">>, <<"present", "as">>})
        structureDefined ==
            \/ Detect(prompt, {"section", "heading", "organize", "structure", "step", "phase",
                               "part"}, {})
            \/ Detect(prompt, {"include", "contain", "with", "having"}, {})
        presentationClear ==
            formatSpecified
            /\ (structureDefined
                \/ Detect(prompt, {"example", "sample", "like"}, {<<"such", "as">>}))
        score ==
            (IF formatSpecified THEN 40 ELSE 0) + (IF structureDefined THEN 35 ELSE 0)
            + (IF presentationClear THEN 25 ELSE 0)
    IN  [score |-> Min(100, score),
         formatSpecified |-> formatSpecified,
         structureDefined |-> structureDefined,
         presentationClear |-> presentationClear,
         issues |-> When(~formatSpecified, "Output format not specified")
                    \o When(~structureDefined, "Structure or organization not defined"),
         suggestions |->
             When(~formatSpecified,
                  "[S] Specify format: Define how output should be presented (markdown, code, list)")
             \o When(~structureDefined,
                  "[S] Define structure: Specify how information should be organized")
             \o When(~presentationClear,
                  "[S] Clarify presentation: Add examples or specify organization preferences")]

\* the technical cues tested before the formal and the casual ones
analyzeTone_TechnicalFirst(prompt) ==
    LET toneSpecified ==
            Detect(prompt, {"tone", "voice", "style", "formal", "informal", "casual",
                            "professional", "friendly", "technical"}, {})
        voiceConsistency ==
            Detect(prompt, {"consistent", "throughout", "maintain", "keep"}, {}) /\ toneSpecified
        formalityLevel ==
            IF Detect(prompt, {"technical", "precise", "expert", "developer"}, {})
            THEN "technical"
            ELSE IF Detect(prompt, {"formal", "professional", "business"}, {}) THEN "formal"
            ELSE IF Detect(prompt, {"casual", "friendly", "conversational", "informal"}, {})
                 THEN "casual"
            ELSE "unspecified"
        score ==
            (IF toneSpecified THEN 50 ELSE 0) + (IF voiceConsistency THEN 25 ELSE 0)
            + (IF formalityLevel # "unspecified" THEN 25 ELSE 0)
    IN  [score |-> Min(100, score),
         toneSpecified |-> toneSpecified,
         voiceConsistency |-> voiceConsistency,
         formalityLevel |-> formalityLevel,
         issues |-> When(~toneSpecified, "Tone or voice not specified"),
         suggestions |->
             When(~toneSpecified,
                  "[T] Specify tone: Define desired communication style (professional, casual, technical)")
             \o When(formalityLevel = "unspecified" /\ toneSpecified,
                  "[T] Clarify formality: Specify whether formal, casual, or technical tone is preferred")]

analyzeTone(prompt) ==
    LET toneSpecified ==
            Detect(prompt, {"tone", "voice", "style", "formal", "informal", "casual",
                            "professional", "friendly", "technical"}, {})
        voiceConsistency ==
            Detect(prompt, {"consistent", "throughout", "maintain", "keep"}, {}) /\ toneSpecified
        formalityLevel ==
            IF Detect(prompt, {"formal", "professional", "business"}, {}) THEN "formal"
            ELSE IF Detect(prompt, {"casual", "friendly", "conversational", "informal"}, {})
                 THEN "casual"
            ELSE IF Detect(prompt, {"technical", "precise", "expert", "developer"}, {})
                 THEN "technical"
            ELSE "unspecified"
        score ==
            (IF toneSpecified THEN 50 ELSE 0) + (IF voiceConsistency THEN 25 ELSE 0)
            + (IF formalityLevel # "unspecified" THEN 25 ELSE 0)
    IN  [score |-> Min(100, score),
         toneSpecified |-> toneSpecified,
         voiceConsistency |-> voiceConsistency,
         formalityLevel |-> formalityLevel,
         issues |-> When(~toneSpecified, "Tone or voice not specified"),
         suggestions |->
             When(~toneSpecified,
                  "[T] Specify tone: Define desired communication style (professional, casual, technical)")
             \o When(formalityLevel = "unspecified" /\ toneSpecified,
                  "[T] Clarify formality: Specify whether formal, casual, or technical tone is preferred")]

analyzeAudience(prompt) ==
    LET audienceSpecified ==
            \/ Detect(prompt, {"for", "target", "audience", "user", "developer", "beginner",
                               "expert", "senior", "junior", "team"}, {})
            \/ Detect(prompt, {}, {<<"who", "will">>, <<"intended", "for">>,
                                   <<"designed", "for">>})
        skillLevelDefined ==
            \/ Detect(prompt, {"beginner", "intermediate", "advanced", "expert", "senior",
                               "junior", "novice", "experienced"}, {})
            \/ Detect(prompt, {"assumes"}, {<<"familiar", "with">>, <<"knowledge", "of">>})
        needsAddressed ==
            audienceSpecified
            /\ (skillLevelDefined
                \/ Detect(prompt, {"needs", "requires", "wants"}, {<<"looking", "for">>}))
        score ==
            (IF audienceSpecified THEN 40 ELSE 0) + (IF skillLevelDefined THEN 35 ELSE 0)
            + (IF needsAddressed THEN 25 ELSE 0)
    IN  [score |-> Min(100, score),
         audienceSpecified |-> audienceSpecified,
         skillLevelDefined |-> skillLevelDefined,
         needsAddressed |-> needsAddressed,
         issues |-> When(~audienceSpecified, "Target audience not specified"),
         suggestions |->
             When(~audienceSpecified,
                  "[A] Define audience: Specify who will use this (developers, beginners, experts)")
             \o When(~skillLevelDefined /\ audienceSpecified,
                  "[A] Specify skill level: Define expertise level of target audience")
             \o When(~needsAddressed /\ audienceSpecified,
                  "[A] Address needs: Consider specific needs of the target audience")]

analyzeResponse(prompt) ==
    LET outputFormatClear ==
            \/ Detect(prompt, {"output", "result", "deliverable", "return", "provide",
                               "generate"}, {})
            \/ hasExpectedOutput(prompt)
        deliverablesSpecified ==
            /\ Detect(prompt, {"deliverable", "include", "provide", "contain", "with",
                               "having"}, {})
            /\ Detect(prompt, {"code", "documentation", "test", "example", "file"}, {})
        examplesProvided ==
            \/ Detect(prompt, {"example", "sample", "like"},
                      {<<"such", "as">>, <<"for", "instance">>, <<"similar", "to">>})
            \/ Contains(prompt, "e.g.")
        score ==
            (IF outputFormatClear THEN 40 ELSE 0) + (IF deliverablesSpecified THEN 40 ELSE 0)
            + (IF examplesProvided THEN 20 ELSE 0)
    IN  [score |-> Min(100, score),
         outputFormatClear |-> outputFormatClear,
         deliverablesSpecified |-> deliverablesSpecified,
         examplesProvided |-> examplesProvided,
         issues |-> When(~outputFormatClear, "Expected output format not clear")
                    \o When(~deliverablesSpecified, "Specific deliverables not listed"),
         suggestions |->
             When(~outputFormatClear,
                  "[R] Clarify output: Specify what should be returned or delivered")
             \o When(~deliverablesSpecified,
                  "[R] List deliverables: Specify concrete outputs (code, docs, tests, examples)")
             \o When(~examplesProvided,
                  "[R] Provide examples: Include sample outputs or references")]

(***************************************************************************)
(* Score aggregator.  An analysis is a record with the fields context,     *)
(* objective, style and the optional fields tone, audience, response.      *)
(***************************************************************************)
W20 == DoubleLit(20)
W15 == DoubleLit(15)
\* the fast weight of context and objective mistyped as 0.45
W35_Unnormalised == DoubleLit(45)
W35 == DoubleLit(35)
W30 == DoubleLit(30)

\* analysis.tone?.score ?? 0
OptScore_DefaultZero(opt) == IF Truthy(opt) THEN Some(opt[1].score) ELSE Some(0)

OptScore(opt) == IF Truthy(opt) THEN Some(opt[1].score) ELSE Undefined

\* the deep weights applied as soon as one optional component is present, an
\* absent one counting as 0
calculateCOSTARScore_AnyOptional(analysis) ==
    LET context == analysis.context
        objective == analysis.objective
        style == analysis.style
        tone == analysis.tone
        audience == analysis.audience
        response == analysis.response
        Num(opt) == IF Truthy(opt) THEN opt[1].score ELSE 0
        Return(overall) ==
            [overall |-> MathRound(overall),
             context |-> context.score,
             objective |-> objective.score,
             style |-> style.score,
             tone |-> OptScore(tone),
             audience |-> OptScore(audience),
             response |-> OptScore(response),
             rating |-> IF DGe(overall, 8000) THEN "excellent"
                        ELSE IF DGe(overall, 6000) THEN "good"
                        ELSE IF DGe(overall, 4000) THEN "needs-improvement"
                        ELSE "poor"]
    IN  Return(IF Truthy(tone) \/ Truthy(audience) \/ Truthy(response)
               THEN DAdd(DAdd(DAdd(DAdd(DAdd(DMul(context.score, W20),
                                             DMul(objective.score, W20)),
                                        DMul(style.score, W15)),
                                   DMul(Num(tone), W15)),
                              DMul(Num(audience), W15)),
                         DMul(Num(response), W15))
               ELSE DAdd(DAdd(DMul(context.score, W35), DMul(objective.score, W35)),
                         DMul(style.score, W30)))

calculateCOSTARScore(analysis) ==
    LET context == analysis.context
        objective == analysis.objective
        style == analysis.style
        tone == analysis.tone
        audience == analysis.audience
        response == analysis.response
        \* the statements after "let overall" has its value
        Return(overall) ==
            [overall |-> MathRound(overall),
             context |-> context.score,
             objective |-> objective.score,
             style |-> style.score,
             tone |-> OptScore(tone),
             audience |-> OptScore(audience),
             response |-> OptScore(response),
             rating |-> IF DGe(overall, 8000) THEN "excellent"
                        ELSE IF DGe(overall, 6000) THEN "good"
                        ELSE IF DGe(overall, 4000) THEN "needs-improvement"
                        ELSE "poor"]
    IN  Return(IF Truthy(tone) /\ Truthy(audience) /\ Truthy(response)
               THEN DAdd(DAdd(DAdd(DAdd(DAdd(DMul(context.score, W20),
                                             DMul(objective.score, W20)),
                                        DMul(style.score, W15)),
                                   DMul(tone[1].score, W15)),
                              DMul(audience[1].score, W15)),
                         DMul(response[1].score, W15))
               ELSE DAdd(DAdd(DMul(context.score, W35), DMul(objective.score, W35)),
                         DMul(style.score, W30)))

(***************************************************************************)
(* Triage advisor.                                                         *)
(***************************************************************************)
MissingReason ==
    [n \in 3..5 |-> CASE n = 3 -> "Missing 3 critical elements"
                      [] n = 4 -> "Missing 4 critical elements"
                      [] n = 5 -> "Missing 5 critical elements"]

\* performTriage with the style threshold made inclusive (style <= 50)
performTriage_StyleInclusive(prompt, costarResult) ==
    LET reasons ==
            IF Truthy(costarResult)
            THEN When(costarResult[1].context.score < 60,
                      "Context score below 60% - needs richer background information")
                 \o When(costarResult[1].objective.score < 60,
                      "Objective score below 60% - goal needs clarification")
                 \o When(costarResult[1].style.score <= 50,
                      "Style score below 50% - output format not well-defined")
            ELSE LET criticalElements == countMissingCriticalElements(prompt)
                 IN  When(length(trim(prompt)) < 20, "Prompt is very short (< 20 characters)")
                     \o (IF criticalElements >= 3
                         THEN <<MissingReason[criticalElements]>> ELSE <<>>)
    IN  [needsDeepAnalysis |-> Len(reasons) > 0, reasons |-> reasons]

\* performTriage with needsDeepAnalysis set only by a second reason
performTriage_TwoReasons(prompt, costarResult) ==
    LET reasons ==
            IF Truthy(costarResult)
            THEN When(costarResult[1].context.score < 60,
                      "Context score below 60% - needs richer background information")
                 \o When(costarResult[1].objective.score < 60,
                      "Objective score below 60% - goal needs clarification")
                 \o When(costarResult[1].style.score < 50,
                      "Style score below 50% - output format not well-defined")
            ELSE LET criticalElements == countMissingCriticalElements(prompt)
                 IN  When(length(trim(prompt)) < 20, "Prompt is very short (< 20 characters)")
                     \o (IF criticalElements >= 3
                         THEN <<MissingReason[criticalElements]>> ELSE <<>>)
    IN  [needsDeepAnalysis |-> Len(reasons) > 1, reasons |-> reasons]

\* one path only: without an analysis the prompt is analysed and the score
\* thresholds are applied
performTriage_ScoresOnly(prompt, costarResult) ==
    LET context == IF Truthy(costarResult) THEN costarResult[1].context
                   ELSE analyzeContext(prompt)
        objective == IF Truthy(costarResult) THEN costarResult[1].objective
                     ELSE analyzeObjective(prompt)
        style == IF Truthy(costarResult) THEN costarResult[1].style ELSE analyzeStyle(prompt)
        reasons ==
            When(context.score < 60,
                 "Context score below 60% - needs richer background information")
            \o When(objective.score < 60,
                 "Objective score below 60% - goal needs clarification")
            \o When(style.score < 50,
                 "Style score below 50% - output format not well-defined")
    IN  [needsDeepAnalysis |-> Len(reasons) > 0, reasons |-> reasons]

performTriage(prompt, costarResult) ==
    LET reasons ==
            IF Truthy(costarResult)
            THEN When(costarResult[1].context.score < 60,
                      "Context score below 60% - needs richer background information")
                 \o When(costarResult[1].objective.score < 60,
                      "Objective score below 60% - goal needs clarification")
                 \o When(costarResult[1].style.score < 50,
                      "Style score below 50% - output format not well-defined")
            ELSE LET criticalElements == countMissingCriticalElements(prompt)
                 IN  When(length(trim(prompt)) < 20, "Prompt is very short (< 20 characters)")
                     \o (IF criticalElements >= 3
                         THEN <<MissingReason[criticalElements]>> ELSE <<>>)
    IN  [needsDeepAnalysis |-> Len(reasons) > 0, reasons |-> reasons]

(***************************************************************************)
(* Texts the engine builds.  A text is a non-empty sequence of lines (the  *)
(* string split at its line feeds) and a line is a sequence of pieces of   *)
(* text; the line reads as the concatenation of its pieces.                *)
(***************************************************************************)
\* a string without line feeds, as a text
T(str) == <<<<str>>>>

EmptyText == <<<<>>>>

\* the string "\n"
LF == <<<<>>, <<>>>>

\* a + b
Cat(a, b) == SubSeq(a, 1, Len(a) - 1) \o <<a[Len(a)] \o b[1]>> \o Tail(b)

RECURSIVE CatAll(_)
CatAll(texts) == IF texts = <<>> THEN EmptyText ELSE Cat(Head(texts), CatAll(Tail(texts)))

RECURSIVE LineStr(_)
LineStr(line) == IF line = <<>> THEN "" ELSE Head(line) \o LineStr(Tail(line))

IsBlankPiece(s) == s = " " \/ s = Pad

\* line.trim() is the empty string
IsBlankLine(line) == \A k \in 1..Len(line) : IsBlankPiece(line[k])

\* atoms i..j of one line of the prompt, joined by spaces
RECURSIVE Pieces(_, _, _)
Pieces(p, i, j) ==
    IF i > j THEN <<>>
    ELSE IF i = j THEN <<p[i]>>
    ELSE <<p[i], " ">> \o Pieces(p, i + 1, j)

\* the prompt as a text
RECURSIVE PromptText(_)
PromptText(p) ==
    IF \A i \in 1..Len(p) : p[i] # NL THEN <<Pieces(p, 1, Len(p))>>
    ELSE LET n == CHOOSE i \in 1..Len(p) : p[i] = NL /\ \A k \in 1..(i - 1) : p[k] # NL
         IN  <<Pieces(p, 1, n - 1)>> \o PromptText(SubSeq(p, n + 1, Len(p)))

\* index of the last atom of the line that atom i is on
LineEnd(p, i) ==
    CHOOSE k \in i..Len(p) :
        /\ \A m \in i..k : p[m] # NL
        /\ (k = Len(p) \/ p[k + 1] = NL)

\* the capture of \s*([^\n]+) (or \s+(.+)) applied right after atom i, whose
\* text ends where the white space is to begin: the greedy white space runs up
\* to the next solid atom and the capture is the rest of that atom's line; with
\* only white space left, backtracking leaves the capture the last character
\* that is no line feed
RestCapture(p, i, needSpace) ==
    LET solid == {j \in (i + 1)..Len(p) : ~Ws(p[j])}
        \* blank characters after atom i that are no line feeds
        blanks == LengthUpTo(p, Len(p)) - LengthUpTo(p, i)
                  - Cardinality({j \in (i + 1)..Len(p) : p[j] = NL})
    IN  IF solid # {}
        THEN LET j == CHOOSE a \in solid : \A b \in solid : a <= b
             IN  Some(<<Pieces(p, j, LineEnd(p, j))>>)
        ELSE IF needSpace /\ i < Len(p) /\ p[i + 1] # NL
             \* \s+ keeps the first blank for itself
             THEN (IF blanks >= 2 THEN Some(T(" ")) ELSE Undefined)
        ELSE IF blanks >= 1 THEN Some(T(" "))
        ELSE Undefined

\* prompt.match(/(k1|k2|...):\s*([^\n]+)/i), the second group of the leftmost match
ColonMatch(p, key) ==
    LET hits == {i \in 1..Len(p) : key \in Subs(p[i]) /\ Truthy(RestCapture(p, i, FALSE))}
    IN  IF hits = {} THEN Undefined
        ELSE RestCapture(p, CHOOSE a \in hits : \A b \in hits : a <= b, FALSE)

RECURSIVE JoinComma(_)
JoinComma(names) ==
    IF names = <<>> THEN <<>>
    ELSE IF Len(names) = 1 THEN names
    ELSE <<Head(names), ", ">> \o JoinComma(Tail(names))

extractOrInferTechnical(original) ==
    LET techStack == When(Contains(original, "react"), "React")
                     \o When(Contains(original, "typescript"), "TypeScript")
                     \o When(Contains(original, "node"), "Node.js")
                     \o When(Contains(original, "python"), "Python")
    IN  IF Len(techStack) > 0
        THEN <<<<"- Technology stack: ">> \o JoinComma(techStack),
               <<"- [Add other constraints]">>>>
        ELSE T("- [Specify technologies, integrations, performance requirements]")

extractOrInferContext(prompt) ==
    LET contextMatch == ColonMatch(prompt, "context:")
    IN  IF Truthy(contextMatch) THEN contextMatch[1]
        ELSE IF hasTechnicalDetails(prompt)
        THEN Cat(T("Working in a development environment with "),
                 extractOrInferTechnical(prompt))
        ELSE T("Development project requiring implementation of new functionality")

extractOrInferObjective(prompt) ==
    LET actionMatch ==
            IF StartsWithWord(prompt, ActionVerbs) /\ ~Post(prompt[1])
            THEN RestCapture(prompt, 1, TRUE) ELSE Undefined
        objectiveMatch == ColonMatch(prompt, "objective:")
        firstLine == PromptText(prompt)[1]
    IN  IF Truthy(actionMatch) THEN Cat(<<<<prompt[1], " ">>>>, actionMatch[1])
        ELSE IF Truthy(objectiveMatch) THEN objectiveMatch[1]
        ELSE IF firstLine # <<>> THEN <<firstLine>>
        \* prompt.substring(0, 100): the prompts of the model that begin with a
        \* line feed are shorter than 100 characters
        ELSE PromptText(prompt)

RECURSIVE Dashed(_)
Dashed(lines) ==
    IF lines = <<>> THEN <<>> ELSE <<<<"- ">> \o Head(lines)>> \o Dashed(Tail(lines))

extractOrInferRequirements(prompt) ==
    LET lines == SelectSeq(PromptText(prompt), LAMBDA line : ~IsBlankLine(line))
    IN  IF Len(lines) > 1 THEN Dashed(Tail(lines))
        ELSE CatAll(<<T("- "), PromptText(prompt), LF,
                      T("- [Add specific requirements based on objective]")>>)

extractToneGuidance(prompt) ==
    IF Contains(prompt, "professional") THEN T("Professional tone")
    ELSE IF Contains(prompt, "casual") THEN T("Casual, friendly tone")
    ELSE IF Contains(prompt, "technical") THEN T("Technical, precise tone")
    ELSE T("Professional, clear tone")

extractAudienceDefinition(prompt) ==
    IF Contains(prompt, "beginner")
    THEN T("Target audience: Beginners with basic programming knowledge")
    ELSE IF Contains(prompt, "senior|expert")
    THEN T("Target audience: Senior developers with deep expertise")
    ELSE T("Target audience: Intermediate to advanced developers")

extractDeliverables(prompt) ==
    LET deliverables ==
            When(Contains(prompt, "code"), <<"- Complete code implementation">>)
            \o When(Contains(prompt, "documentation|docs"), <<"- Documentation">>)
            \o When(Contains(prompt, "test"), <<"- Test coverage">>)
            \o When(Contains(prompt, "example"), <<"- Usage examples">>)
    IN  IF Len(deliverables) > 0 THEN deliverables ELSE T("- [Specify deliverables]")

\* String.prototype.trim on a text that begins with a solid character
RECURSIVE TrimEnd(_)
TrimEnd(text) ==
    LET last == text[Len(text)]
    IN  IF last = <<>>
        THEN (IF Len(text) = 1 THEN text ELSE TrimEnd(SubSeq(text, 1, Len(text) - 1)))
        ELSE IF IsBlankPiece(last[Len(last)])
        THEN TrimEnd(SubSeq(text, 1, Len(text) - 1) \o <<SubSeq(last, 1, Len(last) - 1)>>)
        ELSE text

(***************************************************************************)
(* Prompt synthesizer.                                                     *)
(***************************************************************************)
generateCOSTARImprovedPrompt(original, analysis) ==
    LET contextPart ==
            CatAll(<<T("## CONTEXT"), LF, LF,
                     IF ~analysis.context.hasBackground
                     THEN CatAll(<<T("Background: "), extractOrInferContext(original), LF, LF>>)
                     ELSE CatAll(<<extractOrInferContext(original), LF, LF>>),
                     IF ~analysis.context.hasConstraints /\ hasTechnicalDetails(original)
                     THEN CatAll(<<T("Constraints: "), extractOrInferTechnical(original),
                                   LF, LF>>)
                     ELSE EmptyText>>)
        objectivePart ==
            CatAll(<<T("## OBJECTIVE"), LF, LF, extractOrInferObjective(original), LF, LF>>)
        stylePart ==
            CatAll(<<T("## STYLE"), LF, LF,
                     IF ~analysis.style.formatSpecified
                     THEN Cat(T("Format: Provide response as structured, well-organized output"),
                              LF)
                     ELSE EmptyText,
                     IF ~analysis.style.structureDefined
                     THEN Cat(T("Structure: Organize with clear sections and headings"), LF)
                     ELSE EmptyText,
                     LF>>)
        tonePart ==
            IF Truthy(analysis.tone)
            THEN CatAll(<<T("## TONE"), LF, LF,
                          IF ~analysis.tone[1].toneSpecified
                          THEN T("Use a professional, technical tone appropriate for developers")
                          ELSE extractToneGuidance(original),
                          LF, LF>>)
            ELSE EmptyText
        audiencePart ==
            IF Truthy(analysis.audience)
            THEN CatAll(<<T("## AUDIENCE"), LF, LF,
                          IF ~analysis.audience[1].audienceSpecified
                          THEN T("Target audience: Senior developers with expertise in the relevant technology stack")
                          ELSE extractAudienceDefinition(original),
                          LF, LF>>)
            ELSE EmptyText
        responsePart ==
            IF Truthy(analysis.response)
            THEN CatAll(<<T("## RESPONSE"), LF, LF, T("Expected deliverables:"), LF,
                          IF ~analysis.response[1].deliverablesSpecified
                          THEN <<<<"- Complete implementation">>, <<"- Documentation">>,
                                 <<"- Test coverage">>, <<>>, <<>>>>
                          ELSE CatAll(<<extractDeliverables(original), LF, LF>>)>>)
            ELSE EmptyText
        improved ==
            CatAll(<<contextPart, objectivePart, stylePart, tonePart, audiencePart,
                     responsePart, T("---"), LF, LF, T("# Requirements"), LF, LF,
                     extractOrInferRequirements(original)>>)
    IN  TrimEnd(improved)

(***************************************************************************)
(* Change recorder.                                                        *)
(***************************************************************************)
Change(component, change) == [component |-> component, change |-> change]

\* the fallback record filed under the wrong component
FallbackChange_WrongTag == Change("C", "Structured the prompt with COSTAR framework sections")

FallbackChange == Change("O", "Structured the prompt with COSTAR framework sections")

\* the tone record pushed before the context records
generateCOSTARChangesSummary_ToneFirst(original, improved, analysis) ==
    LET changes ==
            When(Truthy(analysis.tone) /\ ~analysis.tone[1].toneSpecified,
                 Change("T", "Added tone guidance for appropriate communication style"))
            \o When(~analysis.context.hasBackground,
                 Change("C", "Added background context and situational details"))
            \o When(~analysis.context.hasConstraints,
                 Change("C", "Specified constraints and requirements"))
            \o When(~analysis.objective.goalClarity,
                 Change("O", "Clarified objective with clear goal statement"))
            \o When(~analysis.objective.measurable,
                 Change("O", "Made objective measurable with success criteria"))
            \o When(~analysis.style.formatSpecified,
                 Change("S", "Specified output format and presentation style"))
            \o When(~analysis.style.structureDefined,
                 Change("S", "Defined structure and organization approach"))
            \o When(Truthy(analysis.audience) /\ ~analysis.audience[1].audienceSpecified,
                 Change("A", "Defined target audience and skill level"))
            \o When(Truthy(analysis.response) /\ ~analysis.response[1].outputFormatClear,
                 Change("R", "Specified expected deliverables and response format"))
    IN  IF Len(changes) = 0 THEN <<FallbackChange>> ELSE changes

generateCOSTARChangesSummary(original, improved, analysis) ==
    LET changes ==
            When(~analysis.context.hasBackground,
                 Change("C", "Added background context and situational details"))
            \o When(~analysis.context.hasConstraints,
                 Change("C", "Specified constraints and requirements"))
            \o When(~analysis.objective.goalClarity,
                 Change("O", "Clarified objective with clear goal statement"))
            \o When(~analysis.objective.measurable,
                 Change("O", "Made objective measurable with success criteria"))
            \o When(~analysis.style.formatSpecified,
                 Change("S", "Specified output format and presentation style"))
            \o When(~analysis.style.structureDefined,
                 Change("S", "Defined structure and organization approach"))
            \o When(Truthy(analysis.tone) /\ ~analysis.tone[1].toneSpecified,
                 Change("T", "Added tone guidance for appropriate communication style"))
            \o When(Truthy(analysis.audience) /\ ~analysis.audience[1].audienceSpecified,
                 Change("A", "Defined target audience and skill level"))
            \o When(Truthy(analysis.response) /\ ~analysis.response[1].outputFormatClear,
                 Change("R", "Specified expected deliverables and response format"))
    IN  IF Len(changes) = 0 THEN <<FallbackChange>> ELSE changes

(***************************************************************************)
(* applyCOSTARFramework(prompt, mode)                                      *)
(***************************************************************************)
applyCOSTARFramework(prompt, mode) ==
    LET \* the statements after improvedPrompt has its value
        Finish(analysis, improvedPrompt) ==
            [context |-> analysis.context,
             objective |-> analysis.objective,
             style |-> analysis.style,
             tone |-> analysis.tone,
             audience |-> analysis.audience,
             response |-> analysis.response,
             overallScore |-> calculateCOSTARScore(analysis).overall,
             improvedPrompt |-> improvedPrompt,
             changesSummary |-> generateCOSTARChangesSummary(prompt, improvedPrompt, analysis)]
        \* the statements after the analysis object is complete
        Synthesize(analysis) ==
            Finish(analysis, generateCOSTARImprovedPrompt(prompt, analysis))
    IN  Synthesize(
            [context |-> analyzeContext(prompt),
             objective |-> analyzeObjective(prompt),
             style |-> analyzeStyle(prompt),
             tone |-> IF mode = "deep" THEN Some(analyzeTone(prompt)) ELSE Undefined,
             audience |-> IF mode = "deep" THEN Some(analyzeAudience(prompt)) ELSE Undefined,
             response |-> IF mode = "deep" THEN Some(analyzeResponse(prompt)) ELSE Undefined])

(***************************************************************************)
(* The engine and its caller.  The engine keeps no state: a caller holds   *)
(* the arguments (prompt, mode) and the values the calls returned.         *)
(***************************************************************************)
VARIABLES
    prompt,     \* the prompt the caller passes
    mode,       \* the OptimizerMode the caller passes
    costar,     \* what applyCOSTARFramework returned (the COSTAR analysis), if called
    score,      \* what calculateCOSTARScore(costar) returned, if called
    scored,     \* how many times calculateCOSTARScore(costar) was called
    triage,     \* what performTriage(prompt, costar) returned, if called
    fallback,   \* what performTriage(prompt) returned, if called
    cli         \* the run of a devflow command, if the caller is one

vars == <<prompt, mode, costar, score, scored, triage, fallback, cli>>

Modes == {"fast", "deep"}

\* OptimizerMode is a compile-time type: the compiled method takes any value
ModeValues == Modes \cup {"turbo"}

\* longest prompt, in atoms, of the exhaustively enumerated prompts
MaxAtoms == 2

\* most calls of calculateCOSTARScore on one analysis object
MaxCalls == 2

Vocab ==
    {"fix", "context:", "with", "node", "code", "success", "professional", "senior",
     "output", "example", "app", "## TONE", NL, Pad}

ExamplePrompts ==
    {<<"fix", "the", "login", "bug">>,
     <<"fix", "existing", "node", "step">>,
     <<"api", "user", "output", Pad>>,
     <<"context:", "node", "success">>,
     <<"fix", "context:", "with", "code">>,
     <<"fix", "context:", "with", "node", "code", "success">>,
     <<"Build", "an", "app">>,
     <<"goal:", Pad, NL, "JSON", "keep", "casual">>,
     <<"you", "are", "developer", "needs", "tests", "provide", "as", "technical">>,
     <<"create", NL, Pad, "react", "page", "must", "beginner", "a">>,
     <<"You", "are", "working", "on", "a", "Node", "project.", "Create", "a", "login",
       "page.", "Provide", "the", "result", "as", "a", "React", "component", "with", "tests.",
       "Target", "audience:", "senior", "developers.", "Format", "the", "response", "as",
       "code", "with", "examples.">>,
     <<"create", "advanced", "api">>,
     <<"keep", "friendly">>,
     <<"professional", "casual", "technical">>,
     <<"casual", "technical">>}

Prompts == UNION {[1..n -> Vocab] : n \in 0..MaxAtoms} \cup ExamplePrompts

Init ==
    /\ prompt \in Prompts
    /\ mode \in ModeValues
    /\ costar = Undefined
    /\ score = Undefined
    /\ scored = 0
    /\ triage = Undefined
    /\ fallback = Undefined
    /\ cli = Undefined

ApplyCOSTARFramework ==
    /\ costar = Undefined
    /\ costar' = Some(applyCOSTARFramework(prompt, mode))
    /\ UNCHANGED <<cli, prompt, mode, score, scored, triage, fallback>>

\* a call that stores its result in the analysis object it was given
CalculateCOSTARScore_WritesBack ==
    /\ Truthy(costar)
    /\ scored < MaxCalls
    /\ score' = Some(calculateCOSTARScore(costar[1]))
    /\ scored' = scored + 1
    /\ costar' = Some([costar[1] EXCEPT !.style.score = score'[1].overall])
    /\ UNCHANGED <<cli, prompt, mode, triage, fallback>>

\* the caller may score the same analysis object again: scored counts the calls
CalculateCOSTARScore ==
    /\ Truthy(costar)
    /\ scored < MaxCalls
    /\ score' = Some(calculateCOSTARScore(costar[1]))
    /\ scored' = scored + 1
    /\ UNCHANGED <<cli, prompt, mode, costar, triage, fallback>>

PerformTriage ==
    /\ Truthy(costar)
    /\ triage = Undefined
    /\ triage' = Some(performTriage(prompt, costar))
    /\ UNCHANGED <<cli, prompt, mode, costar, score, scored, fallback>>

\* a call whose reasons list is shared with the earlier score-based triage
PerformTriageFallback_SharedReasons ==
    /\ fallback = Undefined
    /\ fallback' =
          LET own == performTriage(prompt, Undefined).reasons
              reasons == (IF Truthy(triage) THEN triage[1].reasons ELSE <<>>) \o own
          IN  Some([needsDeepAnalysis |-> Len(reasons) > 0, reasons |-> reasons])
    /\ UNCHANGED <<cli, prompt, mode, costar, score, scored, triage>>

PerformTriageFallback ==
    /\ fallback = Undefined
    /\ fallback' = Some(performTriage(prompt, Undefined))
    /\ UNCHANGED <<cli, prompt, mode, costar, score, scored, triage>>

Next ==
    \/ ApplyCOSTARFramework
    \/ CalculateCOSTARScore
    \/ PerformTriage
    \/ PerformTriageFallback

Spec == Init /\ [][Next]_vars

(***************************************************************************)
(* calculateCOSTARScore and performTriage are public and take any analysis *)
(* object: SpecScore calls them on analyses whose component scores are     *)
(* drawn from a sample of 0..100 that holds the boundary values of the     *)
(* comparisons in the code.                                                *)
(***************************************************************************)
\* the sample holds every multiple of ScoreStep
ScoreStep == 10
\* the optional components, when present, score a multiple of OptScoreStep
OptScoreStep == 100

BoundaryScores == {39, 40, 49, 50, 59, 60, 79, 80}

CoreScores == {s \in 0..100 : s % ScoreStep = 0} \cup BoundaryScores

OptScores == {Undefined} \cup {Some([score |-> s]) : s \in {x \in 0..100 : x % OptScoreStep = 0}}

Analyses ==
    {[context |-> [score |-> t[1]], objective |-> [score |-> t[2]], style |-> [score |-> t[3]],
      tone |-> o[1], audience |-> o[2], response |-> o[3]] :
        t \in CoreScores \X CoreScores \X CoreScores, o \in OptScores \X OptScores \X OptScores}

InitScore ==
    /\ prompt = <<>>
    /\ mode = "fast"
    /\ costar \in {Some(a) : a \in Analyses}
    /\ score = Undefined
    /\ scored = 0
    /\ triage = Undefined
    /\ fallback = Undefined
    /\ cli = Undefined

NextScore ==
    \/ CalculateCOSTARScore
    \/ PerformTriage

SpecScore == InitScore /\ [][NextScore]_vars

(***************************************************************************)
(* The devflow fast and devflow deep commands.  A run is atomic between    *)
(* its awaits: the fast command waits for the user only at the question    *)
(* that follows the triage alert.  cli records the command line, where the *)
(* run stands, and what it has shown and saved.                            *)
(***************************************************************************)
Commands == {"fast", "deep"}

\* the run after its output: shows the scores, and unless hidden the prompt
Shown(run, items, saved) ==
    [run EXCEPT !.pc = "done", !.displayed = run.displayed \cup items, !.saved = saved]

InitCli ==
    /\ prompt \in Prompts
    /\ cli \in [command : Commands, costarOnly : BOOLEAN, frameworkInfo : BOOLEAN,
                pc : {"run"}, alert : {FALSE}, displayed : {{}}, saved : {FALSE}]
    /\ mode = cli.command
    /\ costar = Undefined
    /\ score = Undefined
    /\ scored = 0
    /\ triage = Undefined
    /\ fallback = Undefined

\* the fast command after the analysis: displayCLEAROnlyAnalysis under
\* --costar-only, else displayFastModeOutput and savePrompt
FastOutput(run) ==
    IF run.costarOnly THEN Shown(run, {"scores"}, FALSE)
    ELSE Shown(run, {"scores", "improvedPrompt"}, TRUE)

\* Fast.run up to the end, or up to the question of the triage alert
FastRun ==
    /\ cli # Undefined
    /\ cli.command = "fast"
    /\ cli.pc = "run"
    /\ IF cli.frameworkInfo
       THEN /\ cli' = Shown(cli, {"frameworkInfo"}, FALSE)
            /\ UNCHANGED <<costar, score, scored, fallback>>
       ELSE IF length(trim(prompt)) = 0
       THEN /\ cli' = Shown(cli, {"usage"}, FALSE)
            /\ UNCHANGED <<costar, score, scored, fallback>>
       ELSE LET Analysed(costarResult, costarScore, triageResult) ==
                    LET needsDeepAnalysis ==
                            \/ triageResult.needsDeepAnalysis
                            \/ costarScore.context < 60
                            \/ costarScore.objective < 60
                            \/ costarScore.style < 50
                    IN  /\ costar' = Some(costarResult)
                        /\ score' = Some(costarScore)
                        /\ scored' = 1
                        \* improve(prompt, 'fast').triageResult
                        /\ fallback' = Some(triageResult)
                        /\ cli' = IF needsDeepAnalysis
                                  THEN [cli EXCEPT !.pc = "alert", !.alert = TRUE]
                                  ELSE FastOutput(cli)
                Scored(costarResult) ==
                    Analysed(costarResult, calculateCOSTARScore(costarResult),
                             performTriage(prompt, Undefined))
            IN  Scored(applyCOSTARFramework(prompt, "fast"))
    /\ UNCHANGED <<prompt, mode, triage>>

\* the user answers the question of the triage alert and the run finishes
FastProceed ==
    /\ cli # Undefined
    /\ cli.pc = "alert"
    /\ \E proceed \in {"deep", "fast"} :
          IF proceed = "deep"
          THEN LET Switched(deepClearResult) ==
                       /\ costar' = Some(deepClearResult)
                       /\ score' = Some(calculateCOSTARScore(deepClearResult))
                   \* displayDeepModeOutput, and the run returns
               IN  /\ Switched(applyCOSTARFramework(prompt, "deep"))
                   /\ scored' = 1
                   /\ mode' = "deep"
                   /\ cli' = Shown(cli, {"scores", "improvedPrompt"}, FALSE)
          ELSE /\ cli' = FastOutput(cli)
               /\ UNCHANGED <<mode, costar, score, scored>>
    /\ UNCHANGED <<prompt, triage, fallback>>

\* Deep.run: no question is asked, the run is one step
DeepRun ==
    /\ cli # Undefined
    /\ cli.command = "deep"
    /\ cli.pc = "run"
    /\ IF cli.frameworkInfo
       THEN /\ cli' = Shown(cli, {"frameworkInfo"}, FALSE)
            /\ UNCHANGED <<costar, score, scored>>
       ELSE IF length(trim(prompt)) = 0
       THEN /\ cli' = Shown(cli, {"usage"}, FALSE)
            /\ UNCHANGED <<costar, score, scored>>
       ELSE LET Analysed(costarResult) ==
                    /\ costar' = Some(costarResult)
                    /\ score' = Some(calculateCOSTARScore(costarResult))
            IN  /\ Analysed(applyCOSTARFramework(prompt, "deep"))
                /\ scored' = 1
                /\ cli' = IF cli.costarOnly THEN Shown(cli, {"scores"}, FALSE)
                          ELSE Shown(cli, {"scores", "improvedPrompt"}, TRUE)
    \* improve(prompt, 'deep').triageResult is undefined
    /\ UNCHANGED <<prompt, mode, triage, fallback>>

NextCli ==
    \/ FastRun
    \/ FastProceed
    \/ DeepRun

SpecCli == InitCli /\ [][NextCli]_vars

(***************************************************************************)
(* Properties of the score aggregator.                                     *)
(***************************************************************************)
\* C1: for every analysis with integer component scores in 0..100, the overall
\* that calculateCOSTARScore returns is the weighted sum rounded half-up:
\* 0.35 C + 0.35 O + 0.30 S for a fast analysis (no tone, audience, response)
\* and 0.20 C + 0.20 O + 0.15 (S + T + A + R) when all six are present.
C1_OverallIsRoundedWeightedSum ==
    Truthy(score) =>
        LET a == costar[1]
            c == a.context.score
            o == a.objective.score
            s == a.style.score
        IN  /\ (Truthy(a.tone) /\ Truthy(a.audience) /\ Truthy(a.response)) =>
                  score[1].overall =
                      (20 * c + 20 * o + 15 * s + 15 * a.tone[1].score
                       + 15 * a.audience[1].score + 15 * a.response[1].score + 50) \div 100
            /\ (~Truthy(a.tone) /\ ~Truthy(a.audience) /\ ~Truthy(a.response)) =>
                  score[1].overall = (35 * c + 35 * o + 30 * s + 50) \div 100

\* C2: the rating that calculateCOSTARScore returns is the one the thresholds
\* give for the returned, rounded overall: 80 and above excellent, 60..79 good,
\* 40..59 needs-improvement, below 40 poor.
C2_RatingOfReturnedOverall ==
    Truthy(score) =>
        score[1].rating =
            (IF score[1].overall >= 80 THEN "excellent"
             ELSE IF score[1].overall >= 60 THEN "good"
             ELSE IF score[1].overall >= 40 THEN "needs-improvement"
             ELSE "poor")

\* C3: applyCOSTARFramework(P, 'fast') returns the context, objective and style
\* analyses with tone, audience and response absent, and the score computed
\* from it has no tone, audience or response value; in 'deep' mode all six
\* analyses are returned and the score reports all six component scores.
C3_ComponentsFollowMode ==
    /\ Truthy(costar) =>
          /\ {"context", "objective", "style"} \subseteq DOMAIN costar[1]
          /\ mode = "fast" =>
                /\ costar[1].tone = Undefined
                /\ costar[1].audience = Undefined
                /\ costar[1].response = Undefined
          /\ mode = "deep" =>
                /\ Truthy(costar[1].tone)
                /\ Truthy(costar[1].audience)
                /\ Truthy(costar[1].response)
    /\ Truthy(score) =>
          /\ score[1].context = costar[1].context.score
          /\ score[1].objective = costar[1].objective.score
          /\ score[1].style = costar[1].style.score
          /\ mode = "fast" =>
                /\ score[1].tone = Undefined
                /\ score[1].audience = Undefined
                /\ score[1].response = Undefined
          /\ mode = "deep" =>
                /\ score[1].tone = Some(costar[1].tone[1].score)
                /\ score[1].audience = Some(costar[1].audience[1].score)
                /\ score[1].response = Some(costar[1].response[1].score)

\* a deep analysis has been scored and the score reports the tone component
C3_DeepScored ==
    mode = "deep" /\ Truthy(score) /\ Truthy(score[1].tone) /\ Truthy(costar[1].response)

(***************************************************************************)
(* Properties of the triage advisor.                                       *)
(***************************************************************************)
\* C4: with an analysis, needsDeepAnalysis is true exactly when the context
\* score is below 60, the objective score below 60 or the style score below
\* 50, and the reasons are one reason per failing threshold, in the order
\* context, objective, style, and nothing else; 60/60/50 give no reason.
C4_ScoreBasedTriage ==
    Truthy(triage) =>
        LET failing == <<costar[1].context.score < 60, costar[1].objective.score < 60,
                         costar[1].style.score < 50>>
            reason == <<"Context score below 60% - needs richer background information",
                        "Objective score below 60% - goal needs clarification",
                        "Style score below 50% - output format not well-defined">>
            failed == {k \in 1..3 : failing[k]}
            reasons == triage[1].reasons
        IN  /\ triage[1].needsDeepAnalysis <=> (failing[1] \/ failing[2] \/ failing[3])
            /\ Len(reasons) = Cardinality(failed)
            /\ \A k \in failed : \E i \in 1..Len(reasons) : reasons[i] = reason[k]
            /\ \A i, j \in 1..Len(reasons) :
                  i < j => \E k, l \in failed : k < l /\ reasons[i] = reason[k]
                                                /\ reasons[j] = reason[l]

\* triage of an analysis whose scores sit exactly on the three thresholds
C4_OnThresholds ==
    /\ Truthy(triage)
    /\ costar[1].context.score = 60
    /\ costar[1].objective.score = 60
    /\ costar[1].style.score = 50
    /\ triage[1].reasons = <<>>
    /\ ~triage[1].needsDeepAnalysis

\* C5 as stated: without an analysis, performTriage recommends deep analysis
\* exactly when the raw prompt is shorter than 20 characters or at least 3 of
\* the five critical elements are missing.
C5_FallbackOnRawLength ==
    Truthy(fallback) =>
        LET present == <<hasContext(prompt), hasTechnicalDetails(prompt),
                         hasSuccessCriteria(prompt), hasUserNeeds(prompt),
                         hasExpectedOutput(prompt)>>
            missing == Cardinality({k \in 1..5 : ~present[k]})
        IN  fallback[1].needsDeepAnalysis <=> (length(prompt) < 20 \/ missing >= 3)

\* C5, amended: without an analysis, performTriage recommends deep analysis
\* exactly when the prompt, with the white space at its two ends removed, is
\* shorter than 20 characters or at least 3 of the five critical elements are
\* missing.
C5_FallbackOnTrimmedLength ==
    Truthy(fallback) =>
        LET present == <<hasContext(prompt), hasTechnicalDetails(prompt),
                         hasSuccessCriteria(prompt), hasUserNeeds(prompt),
                         hasExpectedOutput(prompt)>>
            missing == Cardinality({k \in 1..5 : ~present[k]})
            solid == {i \in 1..Len(prompt) : prompt[i] # Pad /\ prompt[i] # NL}
            \* characters of white space before the first and after the last
            \* solid atom
            outer == IF solid = {} THEN length(prompt)
                     ELSE LET first == CHOOSE i \in solid : \A j \in solid : i <= j
                              last == CHOOSE i \in solid : \A j \in solid : i >= j
                          IN  LengthUpTo(prompt, first) - AtomLen(prompt[first])
                              + length(prompt) - LengthUpTo(prompt, last)
        IN  fallback[1].needsDeepAnalysis <=>
                (length(prompt) - outer < 20 \/ missing >= 3)

\* the fallback triage of a prompt of 20 characters or more that is short only
\* once trimmed, with fewer than 3 critical elements missing
C5_ShortOnceTrimmed ==
    /\ Truthy(fallback)
    /\ length(prompt) >= 20
    /\ length(trim(prompt)) < 20
    /\ countMissingCriticalElements(prompt) < 3
    /\ fallback[1].needsDeepAnalysis

\* C6: on the score-based and on the fallback path alike, needsDeepAnalysis is
\* true exactly when the list of reasons is not empty.
C6_DeepIffReasons ==
    /\ Truthy(triage) => (triage[1].needsDeepAnalysis <=> triage[1].reasons # <<>>)
    /\ Truthy(fallback) => (fallback[1].needsDeepAnalysis <=> fallback[1].reasons # <<>>)

\* both paths taken for one prompt: the analysis gives no reason, the fallback
\* heuristic gives one
C6_BothPaths ==
    /\ Truthy(triage)
    /\ Truthy(fallback)
    /\ triage[1].reasons = <<>>
    /\ ~triage[1].needsDeepAnalysis
    /\ Len(fallback[1].reasons) = 1
    /\ fallback[1].needsDeepAnalysis

(***************************************************************************)
(* Properties of the analyzers, the synthesizer and the change recorder.   *)
(***************************************************************************)
\* C7: for every prompt and mode, every numeric score the engine produces (the
\* component scores, situationClarity, clarityScore and the composite overall)
\* is an integer in 0..100.
C7_ScoresInRange ==
    /\ Truthy(costar) =>
          /\ costar[1].context.score \in 0..100
          /\ costar[1].context.situationClarity \in 0..100
          /\ costar[1].objective.score \in 0..100
          /\ costar[1].objective.clarityScore \in 0..100
          /\ costar[1].style.score \in 0..100
          /\ Truthy(costar[1].tone) => costar[1].tone[1].score \in 0..100
          /\ Truthy(costar[1].audience) => costar[1].audience[1].score \in 0..100
          /\ Truthy(costar[1].response) => costar[1].response[1].score \in 0..100
          /\ costar[1].overallScore \in 0..100
    /\ Truthy(score) =>
          /\ score[1].overall \in 0..100
          /\ score[1].context \in 0..100
          /\ score[1].objective \in 0..100
          /\ score[1].style \in 0..100
          /\ Truthy(score[1].tone) => score[1].tone[1] \in 0..100
          /\ Truthy(score[1].audience) => score[1].audience[1] \in 0..100
          /\ Truthy(score[1].response) => score[1].response[1] \in 0..100

\* a prompt with every core trait, analysed and scored: each score is 100
C7_FullMarks ==
    /\ Truthy(costar)
    /\ Truthy(score)
    /\ costar[1].context.situationClarity = 100
    /\ costar[1].objective.clarityScore = 100
    /\ costar[1].style.score = 100
    /\ costar[1].overallScore = 100
    /\ score[1].overall = 100

\* C8: whatever text the prompt holds, the synthesized prompt of deep mode
\* contains the six section headers CONTEXT, OBJECTIVE, STYLE, TONE, AUDIENCE,
\* RESPONSE and that of fast mode contains exactly three: CONTEXT, OBJECTIVE,
\* STYLE.
C8_SectionHeaders ==
    Truthy(costar) =>
        LET text == costar[1].improvedPrompt
            core == {"## CONTEXT", "## OBJECTIVE", "## STYLE"}
            optional == {"## TONE", "## AUDIENCE", "## RESPONSE"}
            headerLines == {i \in 1..Len(text) : LineStr(text[i]) \in core \cup optional}
            headers == {LineStr(text[i]) : i \in headerLines}
        IN  /\ mode = "deep" => headers = core \cup optional
            /\ mode = "fast" => headers = core /\ Cardinality(headerLines) = 3

\* C9: the list of change records that applyCOSTARFramework returns is never
\* empty, and it is the single fallback record (O, 'Structured the prompt with
\* COSTAR framework sections') exactly when no trait flag the recorder walks,
\* over the components the mode activates, shows a gap.
C9_ChangesNeverEmpty ==
    Truthy(costar) =>
        LET a == costar[1]
            gaps ==
                \/ ~a.context.hasBackground
                \/ ~a.context.hasConstraints
                \/ ~a.objective.goalClarity
                \/ ~a.objective.measurable
                \/ ~a.style.formatSpecified
                \/ ~a.style.structureDefined
                \/ (Truthy(a.tone) /\ ~a.tone[1].toneSpecified)
                \/ (Truthy(a.audience) /\ ~a.audience[1].audienceSpecified)
                \/ (Truthy(a.response) /\ ~a.response[1].outputFormatClear)
        IN  /\ a.changesSummary # <<>>
            /\ ~gaps <=>
                  a.changesSummary =
                      <<[component |-> "O",
                         change |-> "Structured the prompt with COSTAR framework sections"]>>

\* an analysis without a gap: the fallback record alone is returned
C9_OnlyFallback ==
    /\ Truthy(costar)
    /\ costar[1].context.hasBackground
    /\ costar[1].context.hasConstraints
    /\ costar[1].objective.goalClarity
    /\ costar[1].objective.measurable
    /\ costar[1].style.formatSpecified
    /\ costar[1].style.structureDefined
    /\ costar[1].changesSummary = <<FallbackChange>>

\* C10: each change record describes a gap the synthesizer filled in the same
\* result: 'Added background' comes with a 'Background:' line, 'Specified
\* constraints and requirements' with a 'Constraints:' line, 'Made objective
\* measurable with success criteria' with added success-criteria text, the [S]
\* records with the 'Format:' and 'Structure:' lines and the [T] and [A] records
\* with the fixed tone and audience sentences.
C10_RecordedChangesWereMade ==
    Truthy(costar) =>
        LET text == costar[1].improvedPrompt
            changes == costar[1].changesSummary
            Recorded(change) == \E i \in 1..Len(changes) : changes[i].change = change
            StartsLine(pieces) ==
                \E i \in 1..Len(text) : text[i] # <<>> /\ text[i][1] \in pieces
            HasLine(str) == \E i \in 1..Len(text) : LineStr(text[i]) = str
        IN  /\ Recorded("Added background context and situational details")
                  => StartsLine({"Background: "})
            /\ Recorded("Specified constraints and requirements")
                  => StartsLine({"Constraints: "})
            /\ Recorded("Made objective measurable with success criteria")
                  => StartsLine({"# Success Criteria", "- Implementation matches requirements",
                                 "- [Add specific success metrics]"})
            /\ Recorded("Specified output format and presentation style")
                  => HasLine("Format: Provide response as structured, well-organized output")
            /\ Recorded("Defined structure and organization approach")
                  => HasLine("Structure: Organize with clear sections and headings")
            /\ Recorded("Added tone guidance for appropriate communication style")
                  => HasLine("Use a professional, technical tone appropriate for developers")
            /\ Recorded("Defined target audience and skill level")
                  => HasLine("Target audience: Senior developers with expertise in the relevant technology stack")

\* C11: a call of applyCOSTARFramework with a mode other than 'fast' and
\* 'deep' fails at the call boundary: it returns no analysis, and the value is
\* never treated as one of the two valid modes.
C11_InvalidModeFails ==
    Truthy(costar) => mode \in Modes

\* C12: the empty prompt obtains the minimum score of every active component:
\* no prompt, in any mode, is scored lower by an analyzer than the empty
\* prompt is.
C12_EmptyPromptScoresLowest ==
    Truthy(costar) =>
        /\ costar[1].context.score >= analyzeContext(<<>>).score
        /\ costar[1].objective.score >= analyzeObjective(<<>>).score
        /\ costar[1].style.score >= analyzeStyle(<<>>).score
        /\ Truthy(costar[1].tone) => costar[1].tone[1].score >= analyzeTone(<<>>).score
        /\ Truthy(costar[1].audience) =>
              costar[1].audience[1].score >= analyzeAudience(<<>>).score
        /\ Truthy(costar[1].response) =>
              costar[1].response[1].score >= analyzeResponse(<<>>).score

\* C13: for the empty prompt, in either mode, the synthesized prompt contains
\* every section header of the mode, and each of these sections and the
\* Requirements block holds text: a line that is not blank stands between its
\* header and the next header or separator.
C13_EmptyPromptSectionsFilled ==
    (prompt = <<>> /\ mode \in Modes /\ Truthy(costar)) =>
        LET text == costar[1].improvedPrompt
            core == {"## CONTEXT", "## OBJECTIVE", "## STYLE"}
            optional == {"## TONE", "## AUDIENCE", "## RESPONSE"}
            wanted == (IF mode = "deep" THEN core \cup optional ELSE core)
                      \cup {"# Requirements"}
            Boundary(i) ==
                LineStr(text[i]) \in core \cup optional \cup {"# Requirements", "---"}
        IN  \A h \in wanted :
                \E i \in 1..Len(text) :
                    /\ LineStr(text[i]) = h
                    /\ \E j \in (i + 1)..Len(text) :
                          /\ ~IsBlankLine(text[j])
                          /\ \A k \in (i + 1)..j : ~Boundary(k)

\* C14: the score of each analyzer is the sum of the weights of the traits it
\* detected, capped at 100: Context 50/30/20 (hasBackground, hasConstraints,
\* technology terms), Objective 40/30/30 (goalClarity, measurable, achievable),
\* Style 40/35/25 (formatSpecified, structureDefined, presentationClear), Tone
\* 50/25/25 (toneSpecified, voiceConsistency, formality known), Audience
\* 40/35/25 (audienceSpecified, skillLevelDefined, needsAddressed), Response
\* 40/40/20 (outputFormatClear, deliverablesSpecified, examplesProvided).
C14_ScoreIsWeightedTraitSum ==
    Truthy(costar) =>
        LET a == costar[1]
            Sum(t1, w1, t2, w2, t3, w3) ==
                (IF t1 THEN w1 ELSE 0) + (IF t2 THEN w2 ELSE 0) + (IF t3 THEN w3 ELSE 0)
            Capped(n) == IF n > 100 THEN 100 ELSE n
        IN  /\ a.context.score =
                  Capped(Sum(a.context.hasBackground, 50, a.context.hasConstraints, 30,
                             hasTechnicalDetails(prompt), 20))
            /\ a.objective.score =
                  Capped(Sum(a.objective.goalClarity, 40, a.objective.measurable, 30,
                             a.objective.achievable, 30))
            /\ a.style.score =
                  Capped(Sum(a.style.formatSpecified, 40, a.style.structureDefined, 35,
                             a.style.presentationClear, 25))
            /\ Truthy(a.tone) =>
                  a.tone[1].score =
                      Capped(Sum(a.tone[1].toneSpecified, 50, a.tone[1].voiceConsistency, 25,
                                 a.tone[1].formalityLevel # "unspecified", 25))
            /\ Truthy(a.audience) =>
                  a.audience[1].score =
                      Capped(Sum(a.audience[1].audienceSpecified, 40,
                                 a.audience[1].skillLevelDefined, 35,
                                 a.audience[1].needsAddressed, 25))
            /\ Truthy(a.response) =>
                  a.response[1].score =
                      Capped(Sum(a.response[1].outputFormatClear, 40,
                                 a.response[1].deliverablesSpecified, 40,
                                 a.response[1].examplesProvided, 20))

\* a deep analysis in which every component has a detected and a missing trait
C14_MixedTraits ==
    /\ Truthy(costar)
    /\ mode = "deep"
    /\ costar[1].context.score \in 1..99
    /\ costar[1].objective.score \in 1..99
    /\ costar[1].style.score \in 1..99
    /\ costar[1].tone[1].score \in 1..99
    /\ costar[1].audience[1].score \in 1..99
    /\ costar[1].response[1].score \in 1..99

\* C15: within a component, turning one trait from false to true with the
\* other traits unchanged never lowers the component's score: the analysis
\* applyCOSTARFramework has just returned is compared with the analyses of the
\* empty prompt, of the one-atom prompts and of the example prompts of at most
\* eight atoms.  And raising one component score of the analysis that
\* calculateCOSTARScore has just scored, with the other scores unchanged,
\* never lowers the composite overall.
C15_Monotone ==
    Truthy(costar) =>
        LET a == costar[1]
            probes == {<<>>} \cup {<<w>> : w \in Vocab}
                      \cup {q \in ExamplePrompts : Len(q) <= 8}
            OneFlip(f, g) ==
                \E k \in 1..3 : ~f[k] /\ g[k] /\ \A j \in 1..3 \ {k} : f[j] = g[j]
            Mono(f, sf, g, sg) ==
                (OneFlip(f, g) => sg >= sf) /\ (OneFlip(g, f) => sf >= sg)
            C(x, technical) == <<x.hasBackground, x.hasConstraints, technical>>
            O(x) == <<x.goalClarity, x.measurable, x.achievable>>
            S(x) == <<x.formatSpecified, x.structureDefined, x.presentationClear>>
            To(x) == <<x.toneSpecified, x.voiceConsistency, x.formalityLevel # "unspecified">>
            Au(x) == <<x.audienceSpecified, x.skillLevelDefined, x.needsAddressed>>
            Re(x) == <<x.outputFormatClear, x.deliverablesSpecified, x.examplesProvided>>
            MonoC(x, technical) ==
                Mono(C(a.context, hasTechnicalDetails(prompt)), a.context.score,
                     C(x, technical), x.score)
            MonoO(x) == Mono(O(a.objective), a.objective.score, O(x), x.score)
            MonoS(x) == Mono(S(a.style), a.style.score, S(x), x.score)
            MonoT(x) == Mono(To(a.tone[1]), a.tone[1].score, To(x), x.score)
            MonoA(x) == Mono(Au(a.audience[1]), a.audience[1].score, Au(x), x.score)
            MonoR(x) == Mono(Re(a.response[1]), a.response[1].score, Re(x), x.score)
            \* every trait weight, hence every component score, is a multiple of 5
            Above(s) == {n \in s..100 : n % 5 = 0}
        IN  /\ scored = 0 /\ triage = Undefined /\ fallback = Undefined =>
                \A q \in probes :
                  /\ MonoC(analyzeContext(q), hasTechnicalDetails(q))
                  /\ MonoO(analyzeObjective(q))
                  /\ MonoS(analyzeStyle(q))
                  /\ Truthy(a.tone) => MonoT(analyzeTone(q))
                  /\ Truthy(a.audience) => MonoA(analyzeAudience(q))
                  /\ Truthy(a.response) => MonoR(analyzeResponse(q))
            /\ scored = 1 /\ triage = Undefined /\ fallback = Undefined =>
                  /\ \A n \in Above(a.context.score) :
                        calculateCOSTARScore([a EXCEPT !.context.score = n]).overall
                            >= score[1].overall
                  /\ \A n \in Above(a.objective.score) :
                        calculateCOSTARScore([a EXCEPT !.objective.score = n]).overall
                            >= score[1].overall
                  /\ \A n \in Above(a.style.score) :
                        calculateCOSTARScore([a EXCEPT !.style.score = n]).overall
                            >= score[1].overall
                  /\ Truthy(a.tone) =>
                        \A n \in Above(a.tone[1].score) :
                            calculateCOSTARScore(
                                [a EXCEPT !.tone = Some([a.tone[1] EXCEPT !.score = n])]).overall
                                >= score[1].overall
                  /\ Truthy(a.audience) =>
                        \A n \in Above(a.audience[1].score) :
                            calculateCOSTARScore(
                                [a EXCEPT !.audience =
                                     Some([a.audience[1] EXCEPT !.score = n])]).overall
                                >= score[1].overall
                  /\ Truthy(a.response) =>
                        \A n \in Above(a.response[1].score) :
                            calculateCOSTARScore(
                                [a EXCEPT !.response =
                                     Some([a.response[1] EXCEPT !.score = n])]).overall
                                >= score[1].overall

\* a scored deep analysis whose context lacks only the technology terms, while
\* an example prompt has all three context traits and a higher context score
C15_OneTraitApart ==
    /\ Truthy(costar)
    /\ Truthy(score)
    /\ mode = "deep"
    /\ costar[1].context.hasBackground
    /\ costar[1].context.hasConstraints
    /\ ~hasTechnicalDetails(prompt)
    /\ \E q \in ExamplePrompts :
          /\ Len(q) <= 8
          /\ analyzeContext(q).hasBackground
          /\ analyzeContext(q).hasConstraints
          /\ hasTechnicalDetails(q)
          /\ analyzeContext(q).score > costar[1].context.score

C18_FixTheLoginBug ==
    (prompt = <<"fix", "the", "login", "bug">> /\ mode = "fast") =>
        /\ Truthy(costar) =>
              /\ costar[1].context.score < 60
              /\ ~costar[1].context.hasBackground
              /\ ~costar[1].context.hasConstraints
              /\ costar[1].objective.goalClarity
              /\ ~costar[1].objective.measurable
              /\ costar[1].style.score = 0
        /\ Truthy(score) =>
              /\ score[1].overall < 40
              /\ score[1].rating = "poor"
        /\ Truthy(triage) =>
              /\ triage[1].needsDeepAnalysis
              /\ triage[1].reasons =
                    <<"Context score below 60% - needs richer background information",
                      "Style score below 50% - output format not well-defined">>

\* 'fix the login bug' has been analysed in fast mode, scored and triaged
C18_LoginBugTriaged ==
    /\ prompt = <<"fix", "the", "login", "bug">>
    /\ mode = "fast"
    /\ Truthy(costar)
    /\ Truthy(score)
    /\ Truthy(triage)

\* C19: for the prompt 'You are working on a Node project. Create a login
\* page. Provide the result as a React component with tests. Target audience:
\* senior developers. Format the response as code with examples.' in deep
\* mode, Context, Objective, Style, Audience and Response each score at least
\* 70, Tone scores lower than each of them with toneSpecified false and a
\* [T] suggestion, and the overall is at least 60 with rating 'good' or
\* 'excellent'.
C19_RichPromptScoresHigh ==
    LET rich == <<"You", "are", "working", "on", "a", "Node", "project.", "Create", "a",
                  "login", "page.", "Provide", "the", "result", "as", "a", "React",
                  "component", "with", "tests.", "Target", "audience:", "senior",
                  "developers.", "Format", "the", "response", "as", "code", "with",
                  "examples.">>
    IN  (prompt = rich /\ mode = "deep") =>
            /\ Truthy(costar) =>
                  LET a == costar[1]
                      high == {a.context.score, a.objective.score, a.style.score,
                               a.audience[1].score, a.response[1].score}
                  IN  /\ \A h \in high : h >= 70 /\ a.tone[1].score < h
                      /\ ~a.tone[1].toneSpecified
                      /\ \E k \in 1..Len(a.tone[1].suggestions) :
                            a.tone[1].suggestions[k] =
                                "[T] Specify tone: Define desired communication style (professional, casual, technical)"
            /\ Truthy(score) =>
                  /\ score[1].overall >= 60
                  /\ score[1].rating \in {"good", "excellent"}

\* C20: in every Audience analysis skillLevelDefined is true only when
\* audienceSpecified is true.
C20_SkillLevelNeedsAudience ==
    (Truthy(costar) /\ Truthy(costar[1].audience)) =>
        (costar[1].audience[1].skillLevelDefined => costar[1].audience[1].audienceSpecified)

\* C21: in deep mode, for a prompt whose tone is specified, the tone line of
\* the synthesized TONE section agrees with the formalityLevel the analysis
\* resolved: formal gives a professional tone, casual the casual tone and
\* technical the technical tone.
C21_ToneSectionAgrees ==
    (Truthy(costar) /\ Truthy(costar[1].tone) /\ costar[1].tone[1].toneSpecified) =>
        LET text == costar[1].improvedPrompt
            level == costar[1].tone[1].formalityLevel
            agreeing ==
                CASE level = "formal" -> {"Professional tone", "Professional, clear tone"}
                  [] level = "casual" -> {"Casual, friendly tone"}
                  [] level = "technical" -> {"Technical, precise tone"}
                  [] OTHER -> {"Professional tone", "Professional, clear tone",
                               "Casual, friendly tone", "Technical, precise tone"}
        IN  \E i \in 1..(Len(text) - 2) :
                /\ LineStr(text[i]) = "## TONE"
                /\ IsBlankLine(text[i + 1])
                /\ LineStr(text[i + 2]) \in agreeing

\* C22: every section of the synthesized prompt whose trait the analysis found
\* specified (hasBackground for CONTEXT, formatSpecified and structureDefined
\* for STYLE, toneSpecified for TONE, audienceSpecified for AUDIENCE,
\* deliverablesSpecified for RESPONSE) has a body that is neither empty nor
\* the generic text the synthesizer writes when nothing can be extracted.
C22_SpecifiedSectionsExtracted ==
    Truthy(costar) =>
        LET a == costar[1]
            text == a.improvedPrompt
            headers == {"## CONTEXT", "## OBJECTIVE", "## STYLE", "## TONE", "## AUDIENCE",
                        "## RESPONSE", "# Requirements", "---"}
            generic ==
                {"Development project requiring implementation of new functionality",
                 "- [Add other constraints]",
                 "Professional, clear tone",
                 "Target audience: Intermediate to advanced developers",
                 "Expected deliverables:",
                 "- [Specify deliverables]"}
            Inferred(line) ==
                \/ LineStr(line) \in generic
                \/ line[1] = "Working in a development environment with "
            Extracted(h) ==
                \E i \in 1..Len(text) :
                    /\ LineStr(text[i]) = h
                    /\ \E j \in (i + 1)..Len(text) :
                          /\ ~IsBlankLine(text[j])
                          /\ ~Inferred(text[j])
                          /\ \A k \in (i + 1)..j : LineStr(text[k]) \notin headers
        IN  /\ a.context.hasBackground => Extracted("## CONTEXT")
            /\ (a.style.formatSpecified /\ a.style.structureDefined) => Extracted("## STYLE")
            /\ (Truthy(a.tone) /\ a.tone[1].toneSpecified) => Extracted("## TONE")
            /\ (Truthy(a.audience) /\ a.audience[1].audienceSpecified) =>
                  Extracted("## AUDIENCE")
            /\ (Truthy(a.response) /\ a.response[1].deliverablesSpecified) =>
                  Extracted("## RESPONSE")

\* C23: the fast command shows the triage alert and asks the user how to
\* proceed if and only if the fast-mode Context score is below 60, or the
\* Objective score is below 60, or the Style score is below 50.
C23_AlertIffLowScores ==
    (cli # Undefined /\ cli.command = "fast" /\ mode = "fast" /\ Truthy(score)) =>
        (cli.alert <=> \/ score[1].context < 60
                       \/ score[1].objective < 60
                       \/ score[1].style < 50)

\* C24: a run of the fast or the deep command with --costar-only never
\* displays and never saves the improved prompt.
C24_CostarOnlyHidesPrompt ==
    (cli # Undefined /\ cli.costarOnly) =>
        ("improvedPrompt" \notin cli.displayed /\ ~cli.saved)

\* C25: in deep mode the change record [R] 'Specified expected deliverables
\* and response format' is in the change summary if and only if the RESPONSE
\* section of the same result holds the fixed list Complete implementation,
\* Documentation, Test coverage.
C25_ResponseRecordIffFixedList ==
    (Truthy(costar) /\ Truthy(costar[1].response)) =>
        LET text == costar[1].improvedPrompt
            changes == costar[1].changesSummary
            recorded ==
                \E k \in 1..Len(changes) :
                    changes[k] = Change("R", "Specified expected deliverables and response format")
            fixedList ==
                \E i \in 1..(Len(text) - 3) :
                    /\ LineStr(text[i]) = "Expected deliverables:"
                    /\ LineStr(text[i + 1]) = "- Complete implementation"
                    /\ LineStr(text[i + 2]) = "- Documentation"
                    /\ LineStr(text[i + 3]) = "- Test coverage"
        IN  recorded <=> fixedList

\* C26: the two triage paths disagree on the same prompt, in both
\* directions: for 'fix context: with code' the score-based triage does not
\* recommend deep analysis and the fallback triage does; for 'context: node
\* success' the score-based triage recommends it and the fallback does not.
C26_TriagePathsDisagree ==
    (Truthy(triage) /\ Truthy(fallback)) =>
        /\ prompt = <<"fix", "context:", "with", "code">> =>
              (~triage[1].needsDeepAnalysis /\ fallback[1].needsDeepAnalysis)
        /\ prompt = <<"context:", "node", "success">> =>
              (triage[1].needsDeepAnalysis /\ ~fallback[1].needsDeepAnalysis)

\* both triage calls have returned for a prompt on which only the fallback
\* recommends deep analysis
C26_OnlyFallbackRecommends ==
    /\ Truthy(triage)
    /\ Truthy(fallback)
    /\ prompt \in {<<"fix", "context:", "with", "code">>, <<"context:", "node", "success">>}
    /\ ~triage[1].needsDeepAnalysis
    /\ fallback[1].needsDeepAnalysis

\* C27: the Tone analysis resolves formalityLevel by priority: 'formal' when
\* the prompt holds a formal cue, else 'casual' when it holds a casual cue,
\* else 'technical' when it holds a technical cue, and 'unspecified' exactly
\* when it holds no cue of the three levels; and voiceConsistency is true only
\* if toneSpecified is true.
C27_FormalityByPriority ==
    (Truthy(costar) /\ Truthy(costar[1].tone)) =>
        LET tone == costar[1].tone[1]
            Cue(words) == \E i \in 1..Len(prompt) : Word(prompt[i]) \in words
            formal == Cue({"formal", "professional", "business"})
            casual == Cue({"casual", "friendly", "conversational", "informal"})
            technical == Cue({"technical", "precise", "expert", "developer"})
        IN  /\ formal => tone.formalityLevel = "formal"
            /\ (~formal /\ casual) => tone.formalityLevel = "casual"
            /\ (~formal /\ ~casual /\ technical) => tone.formalityLevel = "technical"
            /\ tone.formalityLevel = "unspecified" <=> (~formal /\ ~casual /\ ~technical)
            /\ tone.voiceConsistency => tone.toneSpecified

\* a prompt with cues of all three levels has been analysed in deep mode
C27_AllThreeCues ==
    /\ Truthy(costar)
    /\ Truthy(costar[1].tone)
    /\ prompt = <<"professional", "casual", "technical">>
    /\ costar[1].tone[1].formalityLevel = "formal"

\* C28: in every Style analysis presentationClear is true exactly when
\* formatSpecified holds and structureDefined holds or the prompt has an
\* example-indicator phrase (example, sample, like, such as); so
\* presentationClear implies formatSpecified, formatSpecified with
\* structureDefined implies presentationClear, and the Style score is one of
\* 0, 35, 40, 65 and 100.
C28_PresentationNeedsFormat ==
    Truthy(costar) =>
        LET style == costar[1].style
            indicator ==
                \/ \E i \in 1..Len(prompt) : Word(prompt[i]) \in {"example", "sample", "like"}
                \/ HasPhrase(prompt, <<"such", "as">>)
        IN  /\ style.presentationClear <=>
                  (style.formatSpecified /\ (style.structureDefined \/ indicator))
            /\ style.presentationClear => style.formatSpecified
            /\ (style.formatSpecified /\ style.structureDefined) => style.presentationClear
            /\ style.score \in {0, 35, 40, 65, 100}

\* the format is specified, the structure is not, and an example phrase
\* makes the presentation clear: the Style score is 65
C28_ClearByExample ==
    /\ Truthy(costar)
    /\ costar[1].style.formatSpecified
    /\ ~costar[1].style.structureDefined
    /\ costar[1].style.presentationClear
    /\ costar[1].style.score = 65

C30_ChangesOrderedAndBounded ==
    Truthy(costar) =>
        LET changes == costar[1].changesSummary
            Rank(c) == CASE c = "C" -> 1 [] c = "O" -> 2 [] c = "S" -> 3
                         [] c = "T" -> 4 [] c = "A" -> 5 [] c = "R" -> 6
            Count(c) == Cardinality({i \in DOMAIN changes : changes[i].component = c})
        IN  /\ \A i \in DOMAIN changes : changes[i].component \in {"C", "O", "S", "T", "A", "R"}
            /\ \A i, j \in DOMAIN changes :
                  i < j => Rank(changes[i].component) <= Rank(changes[j].component)
            /\ \A c \in {"C", "O", "S"} : Count(c) <= 2
            /\ \A c \in {"T", "A", "R"} : Count(c) <= 1
            /\ mode # "deep" => Count("T") + Count("A") + Count("R") = 0 /\ Len(changes) <= 6
            /\ mode = "deep" => Len(changes) <= 9

\* a deep analysis whose list is full: nine records, the last three T, A, R
C30_NineRecords ==
    /\ Truthy(costar)
    /\ mode = "deep"
    /\ Len(costar[1].changesSummary) = 9
    /\ costar[1].changesSummary[1].component = "C"
    /\ costar[1].changesSummary[7].component = "T"
    /\ costar[1].changesSummary[8].component = "A"
    /\ costar[1].changesSummary[9].component = "R"

====
